---- MODULE Spec2Model ----
(***************************************************************************)
(* Model of deploy/build.py: the driver main() that walks the manifest     *)
(* build.config.json unit by unit, decides from the runtime settings       *)
(* whether a unit must be rebuilt, calls build_activity_api and persists   *)
(* the new version with save_config.                                       *)
(*                                                                         *)
(* Values read from JSON are records [k, v]: k is the JSON/Python type     *)
(* ("str", "num", "none" for Python None, "absent" for a missing key) and  *)
(* v identifies the value.  Str(0) is the text "1.0.0"; for n >= 1, Str(n) *)
(* is the decimal text of the number Num(n).                               *)
(***************************************************************************)
EXTENDS Integers, Sequences, FiniteSets, TLC

NumUnits == 2        \* length of the manifest
MaxRuns  == 2        \* successive invocations of main() on the same manifest

Units == 1..NumUnits

StrV(n) == [k |-> "str", v |-> n]
NumV(n) == [k |-> "num", v |-> n]
None    == [k |-> "none", v |-> 0]
Absent  == [k |-> "absent", v |-> 0]
NoFile  == [k |-> "nofile", v |-> 0]
Malformed == [k |-> "malformed", v |-> 0]

\* item.get('version', '1.0.0'): the placeholder version
DefaultVersion == StrV(0)

\* str(app_version)
PyStr(x) == IF x.k = "num" THEN StrV(x.v) ELSE x

\* the `version` values a manifest entry may hold (a string, or no key)
ManifestVersions == {Absent, StrV(0), StrV(1)}

\* what appsettings.json / appsettings.<Env>.json of a unit may declare as
\* Deployment.Version: def is the default file, envf the environment file
\* (NoFile: the file is not there, Malformed: it is not valid JSON)
SettingsFiles ==
  { [def |-> Malformed, envf |-> NoFile],
    [def |-> StrV(0), envf |-> NoFile],
    [def |-> NumV(1), envf |-> NoFile],
    [def |-> StrV(0), envf |-> NumV(1)] }

Envs       == {"dev", "prod"}
BuildModes == {"CI", "CICD"}

\* one manifest entry; app, path and yaml are identified by the unit number
Item(i, ver) == [app |-> i, path |-> i, yaml |-> i, version |-> ver]

Manifests == { [i \in Units |-> Item(i, f[i])] : f \in [Units -> ManifestVersions] }

\* contents of the manifest file: parsable JSON array, or a truncated file
File(data)  == [ok |-> TRUE, data |-> data]
Truncated   == [ok |-> FALSE, data |-> << >>]

VARIABLES
  env,            \* sys.argv[1]
  build_mode,     \* sys.argv[2]
  settings,       \* unit -> runtime settings files (read-only for the driver)
  isdir,          \* unit -> os.path.isdir(path) of the unit
  disk,           \* build.config.json on disk
  yamlImage,      \* unit -> version in the image reference of its k8s yaml
                  \* (written by update_yaml_files only, which main() never calls)
  gitLog,         \* commit messages pushed by the driver
                  \* (written by commit_changes only, which main() never calls)
  pc,             \* position of main()
  config,         \* main.config
  index,          \* main.index (1-based)
  build_results,  \* main.build_results
  exitCode,       \* process exit status (-1: still running)
  run,            \* number of the current invocation of main()
  pre,            \* manifest as loaded at the start of this run
  builds,         \* unit -> calls of build_activity_api in this run
  built,          \* units whose build returned True in this run
  failed,         \* units whose build returned False in this run
  missing,        \* units whose path check failed in this run
  okUnits,        \* units appended as True to build_results in this run
  prevOk,         \* okUnits of the previous run
  prevBuilt,      \* units built and saved in the previous run
  prevNormal,     \* the previous run went through all units (lines 285-291)
  docker          \* docker sub-commands invoked in this run

vars == <<env, build_mode, settings, isdir, disk, yamlImage, gitLog, pc, config, index,
          build_results, exitCode, run, pre, builds, built, failed, missing,
          okUnits, prevOk, prevBuilt, prevNormal, docker>>

envVars  == <<env, build_mode, settings, isdir, yamlImage, gitLog>>
histVars == <<builds, built, failed, missing, okUnits, docker>>
prevRun  == <<prevOk, prevBuilt, prevNormal>>

----------------------------------------------------------------------------
(* run_command and build_activity_api *)

\* outcome of one external command: it exits 0, exits non-zero
\* (CalledProcessError, caught) or cannot be launched (FileNotFoundError,
\* not caught by run_command)
RunCommand(outcome) ==
  CASE outcome = "ok"       -> "True"
    [] outcome = "nonzero"  -> "False"
    [] outcome = "nolaunch" -> "raise"

\* A fault plan names the first step of build_activity_api that goes wrong
\* and how; [stage |-> "none"] is the run where every step works.
FaultPlans ==
  { [stage |-> "chdir",      kind |-> "raise"],
    [stage |-> "listdir",    kind |-> "raise"],
    [stage |-> "csproj",     kind |-> "missing"],
    [stage |-> "release",    kind |-> "raise"],
    [stage |-> "publish",    kind |-> "nonzero"],
    [stage |-> "publish",    kind |-> "nolaunch"],
    [stage |-> "output",     kind |-> "missing"],
    [stage |-> "dockerfile", kind |-> "raise"],
    [stage |-> "build",      kind |-> "nonzero"],
    [stage |-> "build",      kind |-> "nolaunch"],
    [stage |-> "tag",        kind |-> "nonzero"],
    [stage |-> "tag",        kind |-> "nolaunch"],
    [stage |-> "push",       kind |-> "nonzero"],
    [stage |-> "push",       kind |-> "nolaunch"],
    [stage |-> "none",       kind |-> "ok"] }

\* outcome of the external command run at `stage` under `plan`
CmdOutcome(plan, stage) == IF plan.stage = stage THEN plan.kind ELSE "ok"

\* the steps before the docker commands: "True" when all of them worked
Publish(plan) ==
  CASE plan.stage \in {"chdir", "listdir", "release", "dockerfile"} -> "raise"
    [] plan.stage \in {"csproj", "output"}                          -> "False"
    [] plan.stage = "publish" -> RunCommand(CmdOutcome(plan, "publish"))
    [] OTHER                  -> "True"

\* the docker commands, in order, each run only when the previous returned
\* success
DockerSteps(plan) ==
  LET b == RunCommand(CmdOutcome(plan, "build"))
      t == RunCommand(CmdOutcome(plan, "tag"))
      p == RunCommand(CmdOutcome(plan, "push"))
  IN  IF b # "True" THEN [ret |-> b, docker |-> {"build"}]
      ELSE IF t # "True" THEN [ret |-> t, docker |-> {"build", "tag"}]
      ELSE [ret |-> p, docker |-> {"build", "tag", "push"}]

\* build_activity_api without the CI return of lines 120-123
BuildActivityApiNoCI(mode, plan) ==
  LET pub == Publish(plan)
  IN  IF pub # "True" THEN [ret |-> pub, docker |-> {}]
      ELSE DockerSteps(plan)

\* build_activity_api(path, image_tag, version, build_mode): its result
\* ("True", "False" or "raise" for an exception that leaves the function)
\* and the docker sub-commands it invoked
BuildActivityApi(mode, plan) ==
  LET pub == Publish(plan)
  IN  IF pub # "True" THEN [ret |-> pub, docker |-> {}]
      ELSE IF mode = "CI" THEN [ret |-> "True", docker |-> {}]
      ELSE DockerSteps(plan)

----------------------------------------------------------------------------
(* helpers of main() *)

\* item.get('version', '1.0.0')
OldVersion(item) == IF item.version = Absent THEN DefaultVersion ELSE item.version

\* lines 242-246: the settings file main() reads for a unit (e is env.lower())
AppSettingPath(e, s) ==
  IF e \in {"staging", "dev"} /\ s.envf # NoFile THEN s.envf ELSE s.def

\* get_app_version: Deployment.Version of the file, None when the file
\* cannot be opened or parsed
GetAppVersion(file) == IF file.k \in {"nofile", "malformed"} THEN None ELSE file

\* lines 249-257 without the str() of line 257
NewVersionRaw(e, s, item) ==
  LET app_version == GetAppVersion(AppSettingPath(e, s))
  IN  IF app_version = None THEN OldVersion(item) ELSE app_version

\* lines 249-257: the version main() determines for a unit
NewVersion(e, s, item) ==
  LET app_version == GetAppVersion(AppSettingPath(e, s))
  IN  IF app_version = None THEN PyStr(OldVersion(item)) ELSE PyStr(app_version)

\* line 260: the skip rule
SkipBuild(old_version, version) == old_version = version

\* line 277 left out: the new version never reaches config
UpdateConfigLost(cfg, i, version) == cfg

\* line 277: config[index]['version'] = version
UpdateConfig(cfg, i, version) == [cfg EXCEPT ![i].version = version]

\* json.dump of a list in which every unit got its item.get('version', '1.0.0')
DumpNormalised(cfg) ==
  File([k \in 1..Len(cfg) |-> [cfg[k] EXCEPT !.version = OldVersion(cfg[k])]])

\* json.dump(config, f): the whole list, every unit
Dump(cfg) == File(cfg)

\* line 286
ExitStatus(results) ==
  IF \E k \in 1..Len(results) : results[k] = FALSE THEN 1 ELSE 0

\* commit_changes: the commit message, the app::version pair of every unit
CommitMsg(cfg) == [k \in 1..Len(cfg) |-> <<cfg[k].app, OldVersion(cfg[k])>>]

----------------------------------------------------------------------------
Init ==
  /\ env \in Envs
  /\ build_mode \in BuildModes
  /\ settings \in [Units -> SettingsFiles]
  /\ isdir \in [Units -> BOOLEAN]
  /\ disk \in { File(m) : m \in Manifests }
  /\ yamlImage = [i \in Units |-> Absent]
  /\ gitLog = << >>
  /\ pc = "start"
  /\ config = << >>
  /\ index = 1
  /\ build_results = << >>
  /\ exitCode = -1
  /\ run = 1
  /\ pre = << >>
  /\ builds = [i \in Units |-> 0]
  /\ built = {}
  /\ failed = {}
  /\ missing = {}
  /\ okUnits = {}
  /\ prevOk = {}
  /\ prevBuilt = {}
  /\ prevNormal = FALSE
  /\ docker = {}

\* load_config: an unparsable manifest ends the run with status 1
LoadConfig ==
  /\ pc = "start"
  /\ IF disk.ok
       THEN /\ config' = disk.data
            /\ pre' = disk.data
            /\ pc' = "loop"
            /\ UNCHANGED exitCode
       ELSE /\ pc' = "exit"
            /\ exitCode' = 1
            /\ UNCHANGED <<config, pre>>
  /\ UNCHANGED <<envVars, histVars, disk, index, build_results, run, prevRun>>

\* lines 237-239 with sys.exit(1) in place of continue
ItemPathMissingAbort ==
  /\ pc = "loop"
  /\ index <= Len(config)
  /\ ~isdir[index]
  /\ missing' = missing \cup {index}
  /\ pc' = "exit"
  /\ exitCode' = 1
  /\ UNCHANGED <<envVars, disk, index, config, build_results, run, pre,
                 builds, built, failed, okUnits, prevRun, docker>>

\* lines 237-239: the unit's path is not a directory
ItemPathMissing ==
  /\ pc = "loop"
  /\ index <= Len(config)
  /\ ~isdir[index]
  /\ missing' = missing \cup {index}
  /\ index' = index + 1
  /\ UNCHANGED <<envVars, disk, pc, config, build_results, exitCode, run, pre,
                 builds, built, failed, okUnits, prevRun, docker>>

\* lines 259-263: version unchanged
ItemSkip ==
  /\ pc = "loop"
  /\ index <= Len(config)
  /\ isdir[index]
  /\ SkipBuild(OldVersion(config[index]),
               NewVersion(env, settings[index], config[index]))
  /\ build_results' = Append(build_results, TRUE)
  /\ okUnits' = okUnits \cup {index}
  /\ index' = index + 1
  /\ UNCHANGED <<envVars, disk, pc, config, exitCode, run, pre,
                 builds, built, failed, missing, prevRun, docker>>

\* lines 265-277: version changed, build_activity_api is called
ItemBuild ==
  /\ pc = "loop"
  /\ index <= Len(config)
  /\ isdir[index]
  /\ LET version == NewVersion(env, settings[index], config[index])
     IN  /\ ~SkipBuild(OldVersion(config[index]), version)
         /\ \E plan \in FaultPlans, chdirBack \in BOOLEAN :
              LET r == BuildActivityApi(build_mode, plan)
              IN  /\ builds' = [builds EXCEPT ![index] = @ + 1]
                  /\ docker' = docker \cup r.docker
                  /\ CASE r.ret = "raise" ->
                            /\ pc' = "crash"
                            /\ exitCode' = 1
                            /\ UNCHANGED <<config, build_results, index, built, failed>>
                       [] r.ret = "False" ->
                            /\ build_results' = Append(build_results, FALSE)
                            /\ failed' = failed \cup {index}
                            /\ index' = index + 1
                            /\ UNCHANGED <<config, pc, exitCode, built>>
                       [] r.ret = "True" /\ ~chdirBack ->
                            /\ pc' = "crash"
                            /\ exitCode' = 1
                            /\ built' = built \cup {index}
                            /\ UNCHANGED <<config, build_results, index, failed>>
                       [] r.ret = "True" /\ chdirBack ->
                            /\ config' = UpdateConfig(config, index, version)
                            /\ pc' = "save"
                            /\ built' = built \cup {index}
                            /\ UNCHANGED <<build_results, index, exitCode, failed>>
  /\ UNCHANGED <<envVars, disk, run, pre, missing, okUnits, prevRun>>

\* save_config, open(config_path, 'w'): the file is truncated, or the open
\* fails and the run ends with status 1
SaveOpen ==
  /\ pc = "save"
  /\ \E opened \in BOOLEAN :
       IF opened
         THEN /\ disk' = Truncated
              /\ pc' = "write"
              /\ UNCHANGED exitCode
         ELSE /\ pc' = "exit"
              /\ exitCode' = 1
              /\ UNCHANGED disk
  /\ UNCHANGED <<envVars, histVars, config, index, build_results, run, pre, prevRun>>

\* save_config, json.dump and close; then lines 279-283
SaveWrite ==
  /\ pc = "write"
  /\ \E written \in BOOLEAN :
       IF written
         THEN /\ disk' = Dump(config)
              /\ build_results' = Append(build_results, TRUE)
              /\ okUnits' = okUnits \cup {index}
              /\ index' = index + 1
              /\ pc' = "loop"
              /\ UNCHANGED exitCode
         ELSE /\ pc' = "exit"
              /\ exitCode' = 1
              /\ UNCHANGED <<disk, build_results, okUnits, index>>
  /\ UNCHANGED <<envVars, config, run, pre, builds, built, failed, missing,
                 prevRun, docker>>

\* lines 285-291
Finish ==
  /\ pc = "loop"
  /\ index > Len(config)
  /\ exitCode' = ExitStatus(build_results)
  /\ pc' = "exit"
  /\ UNCHANGED <<envVars, histVars, disk, config, index, build_results, run,
                 pre, prevRun>>

\* main() is invoked again on the same manifest file and settings
Rerun ==
  /\ pc \in {"exit", "crash"}
  /\ run < MaxRuns
  /\ run' = run + 1
  /\ prevOk' = okUnits
  /\ prevBuilt' = okUnits \cap built
  /\ prevNormal' = (pc = "exit" /\ Len(pre) = NumUnits /\ index = NumUnits + 1)
  /\ pc' = "start"
  /\ config' = << >>
  /\ pre' = << >>
  /\ index' = 1
  /\ build_results' = << >>
  /\ exitCode' = -1
  /\ builds' = [i \in Units |-> 0]
  /\ built' = {}
  /\ failed' = {}
  /\ missing' = {}
  /\ okUnits' = {}
  /\ docker' = {}
  /\ UNCHANGED <<envVars, disk>>

Next ==
  \/ LoadConfig
  \/ ItemPathMissing
  \/ ItemSkip
  \/ ItemBuild
  \/ SaveOpen
  \/ SaveWrite
  \/ Finish
  \/ Rerun

Spec == Init /\ [][Next]_vars

TypeOK ==
  /\ pc \in {"start", "loop", "save", "write", "exit", "crash"}
  /\ index \in 1..(NumUnits + 1)
  /\ run \in 1..MaxRuns
  /\ exitCode \in {-1, 0, 1}

----------------------------------------------------------------------------
(* Properties *)

Terminated == pc \in {"exit", "crash"}

\* main() went through the whole manifest and left by lines 285-291
NormalExit == pc = "exit" /\ Len(pre) = NumUnits /\ index = NumUnits + 1

\* the version the claims call "determined from the runtime settings":
\* Deployment.Version coerced to a string, or the recorded version when the
\* settings cannot be read
Determined(i) ==
  LET v == GetAppVersion(AppSettingPath(env, settings[i]))
  IN  IF v = None THEN OldVersion(config[i])
      ELSE IF v.k = "num" THEN StrV(v.v) ELSE v

\* C1: a unit's manifest version (in memory and on disk) differs from the
\* previously recorded one only after its build returned success and, in a
\* non-CI run, after the image reference in its Kubernetes yaml was rewritten
\* to that version.
C1_VersionOnlyAfterBuildAndRewrite ==
  pc # "start" =>
    \A i \in Units :
      (\/ config[i].version # pre[i].version
       \/ (disk.ok /\ disk.data[i].version # pre[i].version))
      => /\ i \in built
         /\ build_mode # "CI" => yamlImage[i] = config[i].version

\* C2: at the end of a full-mode run the yaml of every built unit refers to
\* the built version, and exactly one commit with the app::version pairs of
\* all units was made, unless a git step failed and the exit status is not 0.
C2_RewriteAndCommit ==
  (NormalExit /\ build_mode # "CI") =>
    /\ \A i \in built : yamlImage[i] = config[i].version
    /\ gitLog = << CommitMsg(config) >> \/ exitCode # 0

C4_SkipRule ==
  [][ (/\ pc = "loop"
       /\ index <= Len(config)
       /\ isdir[index]
       /\ Determined(index) = OldVersion(config[index]))
      => /\ builds' = builds
         /\ docker' = docker
         /\ config' = config
         /\ disk' = disk
         /\ pc' = "loop"
         /\ index' = index + 1
         /\ build_results' = Append(build_results, TRUE)
         /\ okUnits' = okUnits \cup {index} ]_vars

\* a unit with a numeric Deployment.Version equal, once coerced, to its
\* recorded version was skipped
C4_Witness ==
  \E i \in okUnits :
    /\ i \notin built
    /\ builds[i] = 0
    /\ index > i
    /\ GetAppVersion(AppSettingPath(env, settings[i])).k = "num"

C6_UnitByUnitPersistence ==
  pc # "start" =>
    /\ disk.ok
    /\ \A i \in Units :
         LET new == disk.data[i].version = config[i].version /\ i \in built
             old == disk.data[i].version = pre[i].version
         IN  /\ i < index => IF i \in built THEN new ELSE old
             /\ i = index => new \/ old
             /\ i > index => old

\* C7: the step of a unit whose path is missing changes nothing but the
\* position in the manifest, and the exit status of a complete run depends
\* only on the builds that returned failure.
C7_MissingPathIsolated ==
  /\ [][ (index \in missing' /\ index \notin missing)
         => /\ config' = config
            /\ disk' = disk
            /\ build_results' = build_results
            /\ builds' = builds
            /\ docker' = docker
            /\ okUnits' = okUnits
            /\ pc' = "loop"
            /\ exitCode' = exitCode
            /\ index' = index + 1 ]_vars
  /\ [](NormalExit => (exitCode = 1 <=> failed # {}))
  /\ [](\A i \in missing : pc # "start" => config[i] = pre[i])

C7_Witness ==
  /\ NormalExit
  /\ exitCode = 0
  /\ \E i \in missing : \E j \in built \cap okUnits : j > i

\* C8: in a CI run no docker command, no yaml rewrite and no git command is
\* ever run.
C8_CINeverDeploys ==
  build_mode = "CI" =>
    /\ docker = {}
    /\ gitLog = << >>
    /\ \A i \in Units : yamlImage[i] = Absent

C8_Witness ==
  /\ build_mode = "CI"
  /\ NormalExit
  /\ built \cap okUnits # {}
  /\ failed # {}

\* C9: after a run that went through all units the manifest file has the
\* same units in the same order, and only the version of units whose build
\* succeeded differs.
C9_ManifestFrame ==
  NormalExit =>
    /\ disk.ok
    /\ Len(disk.data) = Len(pre)
    /\ \A i \in Units :
         /\ disk.data[i].app = pre[i].app
         /\ disk.data[i].path = pre[i].path
         /\ disk.data[i].yaml = pre[i].yaml
         /\ disk.data[i].version # pre[i].version => i \in built \cap okUnits

C9_Witness ==
  /\ NormalExit
  /\ \E i \in built \cap okUnits : disk.data[i].version # pre[i].version
  /\ \E j \in Units \ built : pre[j].version = Absent /\ disk.data[j].version = Absent

\* C10: no failure during unit processing ends the process with an
\* unhandled exception.
C10_NoUnhandledFault == pc # "crash"
====
